---- MODULE Spec2Model ----
(***************************************************************************)
(* A model of the flowCat SOM engine:                                      *)
(*   - FCSSom (src/flowcat/som/fcssom.py): construction, train, transform, *)
(*     save and load, with the scaler and marker bookkeeping;              *)
(*   - SOM.np_array / pad_array (toroidal padding);                        *)
(*   - SOMDataset (src/flowcat/som_dataset.py): balance, split and         *)
(*     map_groups;                                                         *)
(*   - FCSSom.transform_generator as a Python generator;                   *)
(*   - SOMCollection (src/flowcat/dataset/som.py): the lazy tube cache and *)
(*     its iteration;                                                      *)
(*   - FCSSom.add_weight_images, SOMSequence, the merged group maps of     *)
(*     flowcat/constants.py, and deduplicate_cases_by_sureness             *)
(*     (src/00a_dataset_prepare.py).                                       *)
(* Numbers are integers; scaled values are fixed point with Unit steps per *)
(* 1.0.  The numeric backend (TFSom), FCSData.align, join_fcs_data and the *)
(* FCS scalers are not part of the available sources and are modelled from *)
(* the specification text.                                                 *)
(***************************************************************************)
EXTENDS Integers, Sequences, FiniteSets, TLC

VARIABLES
    fs,       \* the FCSSom instance under operation (fs.exists = FALSE: none yet)
    store,    \* what is stored at the save path: model.ckpt, scaler.joblib, config.json
    ret,      \* outcome of the last FCSSom operation (returned value or raised error)
    ntrain,   \* number of train calls that reached the scaler fit
    padGrid,  \* a prototype grid: its true rows x cols and its SOM (one data row per node)
    padRet,   \* outcome of the last padding call
    dsData,   \* SOMDataset.data: how many entries of the dataset refer to each case
    caseGroup,\* the group field of every SOMCase, by label
    dsRet,    \* outcome of the last SOMDataset operation (returned value or raised error)
    gen,      \* a generator made by transform_generator, with its source iterable
    coll,     \* a SOMCollection: tubes, tubepaths, the cache _data and the iteration index
    reads,    \* how often each tube's file has been read from storage
    collRet,  \* outcome of the last SOMCollection operation
    loops,    \* the loops that iterate over the SOMCollection: what each has received
    sseq,     \* a SOMSequence: its dataset, batch size and cache of batches
    call      \* a call of a stateless function: its name, its arguments and its result

somVars == <<fs, store, ret, ntrain>>
padVars == <<padGrid, padRet>>
dsVars == <<dsData, caseGroup, dsRet>>
genVars == <<gen>>
collVars == <<coll, reads, collRet>>
auxVars == <<loops, sseq, call>>
vars == <<fs, store, ret, ntrain, padGrid, padRet, dsData, caseGroup, dsRet,
          gen, coll, reads, collRet, loops, sseq, call>>

-----------------------------------------------------------------------------
(* Bounds of the model *)

\* fixed-point resolution of scaled values: Unit stands for 1.0
Unit == 2
\* train calls per behaviour
MaxTrains == 2
\* rows and columns of a padded grid
MaxSide == 2
\* pad widths
MaxPad == 2
\* cases in a dataset read from storage
MaxCases == 3
\* num_per_group of balance
MaxPerGroup == 2
\* samples in the iterable given to transform_generator
MaxSource == 2
\* tube numbers
MaxTube == 2
\* SOM objects made outside the collection and registered with add_som
MaxAdded == 2
\* reads of one tube's file, failed ones included
MaxReads == 2
\* images in the marker_dict of add_weight_images
MaxImages == 2
\* batch size of a SOMSequence
MaxBatch == 2
\* cases given to deduplicate_cases_by_sureness, and the ids they carry
MaxDupCases == 3
MaxIds == 2
\* times a group map is applied to a vocabulary in a row
MaxPasses == 2

-----------------------------------------------------------------------------
(* Generic helpers *)

InSeq(seq, x) == \E i \in 1..Len(seq) : seq[i] = x

\* list.index(x): position of the first occurrence
IndexOf(seq, x) == CHOOSE i \in 1..Len(seq) : seq[i] = x /\ \A j \in 1..(i - 1) : seq[j] # x

RECURSIVE SumSeq(_)
SumSeq(s) == IF s = <<>> THEN 0 ELSE Head(s) + SumSeq(Tail(s))

MinOf(S) == CHOOSE x \in S : \A y \in S : x <= y
MaxOf(S) == CHOOSE x \in S : \A y \in S : x >= y

\* integer square root (floor)
ISqrt(n) == MaxOf({k \in 0..n : k * k <= n})

Column(rows, c) == [r \in 1..Len(rows) |-> rows[r][c]]
SeqRange(s) == {s[i] : i \in 1..Len(s)}

-----------------------------------------------------------------------------
(* Inputs: FCS samples (channel list + events x channels matrix) *)

\* all target markers, in target order
SampleFull == [markers |-> <<"CD45", "SS">>, data |-> << <<0, 4>>, <<4, 0>> >>]
\* all target markers, in another order
SampleSwapped == [markers |-> <<"SS", "CD45">>, data |-> << <<2, 1>>, <<2, 3>> >>]
\* a target marker is absent
SampleMissing == [markers |-> <<"CD45">>, data |-> << <<1>>, <<3>> >>]
\* an extra channel
SampleExtra == [markers |-> <<"SS", "CD19", "CD45">>, data |-> << <<3, 9, 2>> >>]

Samples == {SampleFull, SampleSwapped, SampleMissing, SampleExtra}

\* what train is given: an iterable of samples
TrainInputs == { <<SampleFull>>, <<SampleMissing>>, <<SampleSwapped, SampleExtra>> }

MarkerLists == { <<"CD45", "SS">>, <<"SS", "CD45">> }

\* sample argument of train and transform: -1 (all events) or a subsample size
SampleArgs == {-1, 1}

-----------------------------------------------------------------------------
(* FCSData.align and join_fcs_data (flowcat.dataset.fcs) *)

\* target markers that the input does not have, in target order
MissingMarkers(markers, have) == SelectSeq(markers, LAMBDA m : ~InSeq(have, m))

\* FCSData.align(markers): columns reordered to the target markers, or
\* MarkerMissingError carrying the unresolved markers
Align(d, markers) ==
    LET missing == MissingMarkers(markers, d.markers) IN
    IF missing # <<>>
    THEN [ok |-> FALSE, missing |-> missing, markers |-> <<>>, data |-> <<>>]
    ELSE [ok |-> TRUE, missing |-> <<>>, markers |-> markers,
          data |-> [r \in 1..Len(d.data) |->
                      [c \in 1..Len(markers) |-> d.data[r][IndexOf(d.markers, markers[c])]]]]

\* join_fcs_data(data, markers): every sample aligned, rows concatenated in order;
\* the first sample that cannot be aligned raises
RECURSIVE JoinFcsData(_, _)
JoinFcsData(data, markers) ==
    IF data = <<>>
    THEN [ok |-> TRUE, missing |-> <<>>, markers |-> markers, data |-> <<>>]
    ELSE LET a == Align(Head(data), markers) IN
         IF ~a.ok THEN a
         ELSE LET rest == JoinFcsData(Tail(data), markers) IN
              IF ~rest.ok THEN rest
              ELSE [ok |-> TRUE, missing |-> <<>>, markers |-> markers,
                    data |-> a.data \o rest.data]

-----------------------------------------------------------------------------
(* Scalers (flowcat.preprocessing.scalers): fitted parameters per column *)

Unfitted == <<>>

\* per column <<min, max>>
FitMinMax(rows, ncols) ==
    [c \in 1..ncols |-> << MinOf(SeqRange(Column(rows, c))), MaxOf(SeqRange(Column(rows, c))) >>]

\* per column <<mean, std>>, rounded down to integers
FitStandard(rows, ncols) ==
    [c \in 1..ncols |->
        LET col  == Column(rows, c)
            n    == Len(col)
            mean == SumSeq(col) \div n
            var  == SumSeq([i \in 1..n |-> (col[i] - mean) * (col[i] - mean)]) \div n
        IN << mean, ISqrt(var) >>]

ScalerFit(kind, rows, ncols) ==
    IF kind = "FCSMinMaxScaler" THEN FitMinMax(rows, ncols) ELSE FitStandard(rows, ncols)

\* one value scaled with one column's parameters: (x - min) / (max - min) or
\* (x - mean) / std; a zero range or deviation scales by 1
ScaleValue(kind, p, x) ==
    LET width == IF kind = "FCSMinMaxScaler" THEN p[2] - p[1] ELSE p[2] IN
    IF width = 0 THEN Unit * (x - p[1]) ELSE (Unit * (x - p[1])) \div width

ScalerTransform(kind, params, rows) ==
    [r \in 1..Len(rows) |-> [c \in 1..Len(rows[r]) |-> ScaleValue(kind, params[c], rows[r][c])]]

-----------------------------------------------------------------------------
(* TFSom (flowcat.som.tfsom): the numeric backend, winner-takes-all update *)

\* seeded initialisation of m*n prototype vectors of length dim
SeededInit(m, n, dim) == [k \in 1..(m * n) |-> [c \in 1..dim |-> (k - 1) % (Unit + 1)]]

Dist(w, x) == SumSeq([c \in 1..Len(w) |-> (w[c] - x[c]) * (w[c] - x[c])])

\* best matching unit: the first node at minimum distance
BMU(weights, x) ==
    CHOOSE k \in 1..Len(weights) :
        /\ \A j \in 1..Len(weights) : Dist(weights[k], x) <= Dist(weights[j], x)
        /\ \A j \in 1..(k - 1) : Dist(weights[j], x) > Dist(weights[k], x)

\* one pass over the rows in order: the BMU moves onto the input vector
RECURSIVE TFSomTrain(_, _)
TFSomTrain(weights, rows) ==
    IF rows = <<>> THEN weights
    ELSE TFSomTrain([weights EXCEPT ![BMU(weights, Head(rows))] = Head(rows)], Tail(rows))

\* transform: the same update run on a copy seeded from the current grid;
\* the result is a new array, the model's own weights are left as they are
TFSomTransform(weights, rows) == TFSomTrain(weights, rows)

-----------------------------------------------------------------------------
(* SOM (flowcat/dataset/som.py) *)

NoSom == [markers |-> <<>>, data |-> <<>>, transforms |-> <<>>]

\* SOM.dims: a square of side int(sqrt(number of rows))
SOMDims(som) == << ISqrt(Len(som.data)), ISqrt(Len(som.data)) >>

\* a trained reference grid of 2 x 2 nodes
RefSom == [markers |-> <<"CD45", "SS">>,
           data |-> << <<0, 0>>, <<0, 2>>, <<2, 0>>, <<2, 2>> >>,
           transforms |-> <<>>]

-----------------------------------------------------------------------------
(* FCSSom (flowcat/som/fcssom.py) *)

NoScaler == [kind |-> "None", params |-> Unfitted]
IsScalerObject(sc) == sc.kind \in {"FCSMinMaxScaler", "FCSStandardScaler"}

NoFs == [exists |-> FALSE, dims |-> <<0, 0, 0>>, markers |-> <<>>,
         trained |-> FALSE, scaler |-> NoScaler, shape |-> <<0, 0, 0>>, weights |-> <<>>,
         init |-> "random", marker_name_only |-> FALSE, name |-> "fcssom"]

NoStore == [present |-> FALSE, ckpt |-> [shape |-> <<0, 0, 0>>, weights |-> <<>>],
            scaler |-> NoScaler,
            config |-> [dims |-> <<0, 0, 0>>, name |-> "", markers |-> <<>>, trained |-> FALSE,
                        modelargs |-> [init |-> ""], marker_name_only |-> FALSE]]

NoRet == [op |-> "none", err |-> "none", missing |-> <<>>, som |-> NoSom,
          data |-> [markers |-> <<>>, data |-> <<>>], scaler |-> NoScaler,
          aligned |-> [markers |-> <<>>, data |-> <<>>], res |-> <<>>]

\* the scaler selection at the end of __init__
InitScaler(scaler) ==
    IF scaler.kind = "StandardScaler" THEN [ok |-> TRUE, scaler |-> [kind |-> "FCSStandardScaler", params |-> Unfitted]]
    ELSE IF scaler.kind = "MinMaxScaler" THEN [ok |-> TRUE, scaler |-> [kind |-> "FCSMinMaxScaler", params |-> Unfitted]]
    ELSE IF scaler.kind # "None" THEN [ok |-> TRUE, scaler |-> scaler]
    ELSE [ok |-> FALSE, scaler |-> NoScaler]

\* FCSSom.__init__: the instance built, or InvalidScaler
FCSSomInit(dims, init_type, init_data, markers_in, scaler) ==
    LET markers == IF init_type = "reference" THEN init_data.markers ELSE markers_in
        m   == IF init_type = "reference" /\ dims[1] = -1 THEN SOMDims(init_data)[1] ELSE dims[1]
        n   == IF init_type = "reference" /\ dims[2] = -1 THEN SOMDims(init_data)[2] ELSE dims[2]
        dim == IF dims[3] = -1 THEN Len(markers) ELSE dims[3]
        sc  == InitScaler(scaler)
    IN  [ok  |-> sc.ok,
         err |-> IF sc.ok THEN "none" ELSE "InvalidScaler",
         obj |-> [exists |-> TRUE, dims |-> dims, markers |-> markers,
                  trained |-> FALSE, scaler |-> sc.scaler, shape |-> <<m, n, dim>>,
                  weights |-> IF init_type = "reference" THEN init_data.data
                              ELSE SeededInit(m, n, dim),
                  init |-> init_type, marker_name_only |-> FALSE, name |-> "fcssom"]]

\* FCSSom.config
Config(o) == [dims |-> o.dims, name |-> o.name, markers |-> o.markers, trained |-> o.trained,
              modelargs |-> [init |-> o.init], marker_name_only |-> o.marker_name_only]

-----------------------------------------------------------------------------
(* Values of the padding and dataset variables while they are not in use *)

NoPadRet == [op |-> "none", pad |-> 0, err |-> "none", out |-> <<>>]
PadIdle ==
    /\ padGrid = [rows |-> 0, cols |-> 0, som |-> NoSom]
    /\ padRet = NoPadRet

NoDsRet == [op |-> "none", err |-> "none", ratio |-> <<0, 1>>, stratified |-> TRUE,
            train |-> <<>>, validate |-> <<>>, targets |-> <<>>, mapping |-> <<>>]
DataIdle ==
    /\ dsData = <<>>
    /\ caseGroup = <<>>
    /\ dsRet = NoDsRet

NoGen == [state |-> "none", src |-> <<>>, sample |-> 0 - 1, taken |-> 0, yielded |-> <<>>,
          last |-> "none", missing |-> <<>>]
GenIdle == gen = NoGen

NoColl == [tubes |-> <<>>, tubepaths |-> {}, unreadable |-> {}, data |-> <<>>,
           index |-> 0, max_index |-> 0, made |-> 0, added |-> 0]
NoCollRet == [op |-> "none", tube |-> 0, err |-> "none", val |-> 0, read |-> FALSE]
CollIdle ==
    /\ coll = NoColl
    /\ reads = <<>>
    /\ collRet = NoCollRet

NoLoops == <<>>
NoSeq == [exists |-> FALSE]
NoCall == [fn |-> "none"]
AuxIdle ==
    /\ loops = NoLoops
    /\ sseq = NoSeq
    /\ call = NoCall

-----------------------------------------------------------------------------
(* FCSSom operations *)

\* dims arguments used with init = ("random", None)
DimsRandom == { <<1, 2, -1>>, <<2, 2, 2>>, <<1, 2, 1>> }
\* dims arguments used with init = ("reference", som)
DimsReference == { <<-1, -1, -1>>, <<2, 2, -1>> }
\* scaler arguments: the two supported names, an unsupported name, None
ScalerNames == { "StandardScaler", "MinMaxScaler", "RobustScaler", "None" }

\* FCSSom(dims, init, markers, scaler=...)
Construct(dims, init_type, markers, scaler) ==
    /\ ~fs.exists
    /\ LET r == FCSSomInit(dims, init_type, RefSom, markers, scaler) IN
       /\ fs' = IF r.ok THEN r.obj ELSE fs
       /\ ret' = [NoRet EXCEPT !.op = "init", !.err = r.err, !.scaler = scaler]
    /\ UNCHANGED <<store, ntrain, padVars, dsVars, genVars, collVars, auxVars>>

\* np.random.choice(n, k, replace=False): k distinct row numbers in any order
Picks(n, k) == {p \in [1..k -> 1..n] : \A i, j \in 1..k : i # j => p[i] # p[j]}

\* res[np.random.choice(...), :] when sample > 0, else res
Subsamples(res, sample) ==
    IF sample > 0
    THEN {[i \in 1..sample |-> res[p[i]]] : p \in Picks(Len(res), sample)}
    ELSE {res}

\* FCSSom.train: the possible outcomes, each the error raised (or none) and the
\* instance as the call leaves it
TrainResult(o, data, sample) ==
    LET joined == JoinFcsData(data, o.markers) IN
    IF ~joined.ok
    THEN {[err |-> "MarkerMissingError", missing |-> joined.missing, obj |-> o, fitted |-> FALSE]}
    ELSE IF ~IsScalerObject(o.scaler)
    THEN {[err |-> "AttributeError", missing |-> <<>>, obj |-> o, fitted |-> FALSE]}
    ELSE
      LET params == ScalerFit(o.scaler.kind, joined.data, Len(o.markers))
          res    == ScalerTransform(o.scaler.kind, params, joined.data)
          fit    == [o EXCEPT !.scaler.params = params]
      IN  IF Subsamples(res, sample) = {}
          THEN {[err |-> "ValueError", missing |-> <<>>, obj |-> fit, fitted |-> TRUE]}
          ELSE IF o.shape[3] # Len(o.markers)
          THEN {[err |-> "ShapeMismatchError", missing |-> <<>>, obj |-> fit, fitted |-> TRUE]}
          ELSE {[err |-> "none", missing |-> <<>>, fitted |-> TRUE,
                 obj |-> [fit EXCEPT !.weights = TFSomTrain(o.weights, sub), !.trained = TRUE]]
                : sub \in Subsamples(res, sample)}

\* a train call that marks the instance trained before the work is done
TrainMarksEarly(data, sample) ==
    /\ fs.exists
    /\ ntrain < MaxTrains
    /\ \E out \in TrainResult(fs, data, sample) :
        /\ fs' = [out.obj EXCEPT !.trained = TRUE]
        /\ ret' = [NoRet EXCEPT !.op = "train", !.err = out.err, !.missing = out.missing]
        /\ ntrain' = IF out.fitted THEN ntrain + 1 ELSE ntrain
    /\ UNCHANGED <<store, padVars, dsVars, genVars, collVars, auxVars>>

\* fcssom.train(data, sample)
Train(data, sample) ==
    /\ fs.exists
    /\ ntrain < MaxTrains
    /\ \E out \in TrainResult(fs, data, sample) :
        /\ fs' = out.obj
        /\ ret' = [NoRet EXCEPT !.op = "train", !.err = out.err, !.missing = out.missing]
        /\ ntrain' = IF out.fitted THEN ntrain + 1 ELSE ntrain
    /\ UNCHANGED <<store, padVars, dsVars, genVars, collVars, auxVars>>

\* a scaler object fitted elsewhere, passed to transform as scaler=
OtherScaler == [kind |-> "FCSMinMaxScaler", params |-> << <<0, 8>>, <<0, 8>> >>]
TransformScalerArgs == {NoScaler, OtherScaler}

\* an alignment that fills an absent marker's column with zeros
AlignZeroFill(o, data) ==
    [ok |-> TRUE, missing |-> <<>>, markers |-> o.markers,
     data |-> [r \in 1..Len(data.data) |->
                 [c \in 1..Len(o.markers) |->
                    IF InSeq(data.markers, o.markers[c])
                    THEN data.data[r][IndexOf(data.markers, o.markers[c])] ELSE 0]]]

\* data.align(self.markers, name_only=self.marker_name_only)
AlignInput(o, data) == Align(data, o.markers)

\* scaler = scaler or self.scaler: the scaler the rows are scaled with
EffectiveScaler(o, scalerArg, rows) == IF scalerArg.kind # "None" THEN scalerArg ELSE o.scaler

\* FCSSom.transform: the possible outcomes
TransformResult(o, data, sample, scalerArg) ==
    LET aligned == AlignInput(o, data)
        fail(e) == [err |-> e, missing |-> <<>>, som |-> NoSom, res |-> <<>>,
                    aligned |-> [markers |-> aligned.markers, data |-> aligned.data]]
    IN
    IF ~aligned.ok
    THEN {[fail("MarkerMissingError") EXCEPT !.missing = aligned.missing]}
    ELSE
      LET sc == EffectiveScaler(o, scalerArg, aligned.data) IN
      IF ~IsScalerObject(sc) THEN {fail("AttributeError")}
      ELSE IF sc.params = Unfitted THEN {fail("NotFittedError")}
      ELSE
        LET res == ScalerTransform(sc.kind, sc.params, aligned.data) IN
        IF Subsamples(res, sample) = {} THEN {fail("ValueError")}
        ELSE IF o.shape[3] # Len(o.markers) THEN {fail("ShapeMismatchError")}
        ELSE {[fail("none") EXCEPT
                 !.res = res,
                 !.som = [markers |-> o.markers, data |-> TFSomTransform(o.weights, sub),
                          transforms |-> <<sc.kind, sc.params>>]]
              : sub \in Subsamples(res, sample)}

TransformRet(out, data, scalerArg) ==
    [NoRet EXCEPT !.op = "transform", !.err = out.err, !.missing = out.missing,
                  !.som = out.som, !.data = data, !.scaler = scalerArg,
                  !.aligned = out.aligned, !.res = out.res]

\* a transform that writes the refined prototypes back into the instance
TransformInPlace(data, sample, scalerArg) ==
    /\ fs.exists
    /\ \E out \in TransformResult(fs, data, sample, scalerArg) :
        /\ ret' = TransformRet(out, data, scalerArg)
        /\ fs' = IF out.err = "none" THEN [fs EXCEPT !.weights = out.som.data] ELSE fs
    /\ UNCHANGED <<store, ntrain, padVars, dsVars, genVars, collVars, auxVars>>

\* fcssom.transform(data, sample, scaler=...)
Transform(data, sample, scalerArg) ==
    /\ fs.exists
    /\ \E out \in TransformResult(fs, data, sample, scalerArg) :
        ret' = TransformRet(out, data, scalerArg)
    /\ UNCHANGED <<fs, store, ntrain, padVars, dsVars, genVars, collVars, auxVars>>

\* a save without the trained check
SaveUnguarded ==
    /\ fs.exists
    /\ store' = [present |-> TRUE, ckpt |-> [shape |-> fs.shape, weights |-> fs.weights],
                 scaler |-> fs.scaler, config |-> Config(fs)]
    /\ ret' = [NoRet EXCEPT !.op = "save"]
    /\ UNCHANGED <<fs, ntrain, padVars, dsVars, genVars, collVars, auxVars>>

\* fcssom.save(path)
Save ==
    /\ fs.exists
    /\ IF ~fs.trained
       THEN /\ ret' = [NoRet EXCEPT !.op = "save", !.err = "RuntimeError"]
            /\ store' = store
       ELSE /\ store' = [present |-> TRUE,
                         ckpt |-> [shape |-> fs.shape, weights |-> fs.weights],
                         scaler |-> fs.scaler, config |-> Config(fs)]
            /\ ret' = [NoRet EXCEPT !.op = "save"]
    /\ UNCHANGED <<fs, ntrain, padVars, dsVars, genVars, collVars, auxVars>>

\* FCSSom.load(path): the instance rebuilt from the stored config and scaler, then
\* the checkpoint read into its model
LoadResult(st) ==
    LET r == FCSSomInit(st.config.dims, "random", RefSom, st.config.markers, st.scaler) IN
    IF ~r.ok THEN [err |-> r.err, obj |-> NoFs]
    ELSE IF r.obj.shape # st.ckpt.shape THEN [err |-> "ShapeMismatchError", obj |-> NoFs]
    ELSE [err |-> "none",
          obj |-> [r.obj EXCEPT !.weights = st.ckpt.weights, !.trained = TRUE,
                                !.marker_name_only = st.config.marker_name_only,
                                !.name = st.config.name]]

\* g = FCSSom.load(path)
Load ==
    /\ store.present
    /\ LET r == LoadResult(store) IN
       /\ fs' = IF r.err = "none" THEN r.obj ELSE fs
       /\ ret' = [NoRet EXCEPT !.op = "load", !.err = r.err]
    /\ UNCHANGED <<store, ntrain, padVars, dsVars, genVars, collVars, auxVars>>

\* the FCSSom variables before any FCSSom exists
SomIdle ==
    /\ fs = NoFs
    /\ store = NoStore
    /\ ret = NoRet
    /\ ntrain = 0

Init ==
    /\ SomIdle
    /\ PadIdle
    /\ DataIdle
    /\ GenIdle
    /\ AuxIdle
    /\ CollIdle

Next ==
    \/ \E d \in DimsRandom, m \in MarkerLists, sc \in ScalerNames :
          Construct(d, "random", m, [kind |-> sc, params |-> Unfitted])
    \/ \E d \in DimsReference, sc \in ScalerNames :
          Construct(d, "reference", <<>>, [kind |-> sc, params |-> Unfitted])
    \/ \E data \in TrainInputs, sample \in SampleArgs : Train(data, sample)
    \/ \E data \in Samples, sample \in SampleArgs, sc \in TransformScalerArgs :
          Transform(data, sample, sc)
    \/ Save
    \/ Load

Spec == Init /\ [][Next]_vars

-----------------------------------------------------------------------------
(* FCSSom.transform_generator: a Python generator over an iterable of samples.
   Creating it runs nothing; each next() of the consumer runs the body up to the
   next yield.  An exception raised in the body reaches the consumer and leaves
   the generator finished. *)

\* the iterables of samples handed to transform_generator
Sources == UNION { [1..k -> Samples] : k \in 0..MaxSource }

\* the trained instances the generator is run on: built and trained as above
TrainedSoms ==
    { out.obj : out \in
        { o \in UNION { TrainResult(FCSSomInit(<<2, 2, 2>>, "random", RefSom, m,
                                               [kind |-> "MinMaxScaler", params |-> Unfitted]).obj,
                                    <<SampleFull>>, 0 - 1) : m \in MarkerLists }
            : o.err = "none" } }

\* g = fcssom.transform_generator(data, sample)
GenCreate(data, sample) ==
    /\ fs.exists
    /\ gen.state = "none"
    /\ gen' = [NoGen EXCEPT !.state = "created", !.src = data, !.sample = sample]
    /\ UNCHANGED <<somVars, padVars, dsVars, collVars, auxVars>>

\* next(g): the loop takes the next sample of the source and yields
\* self.transform(single, sample=sample); the loop ends with the source
GenNext ==
    /\ gen.state # "none"
    /\ IF gen.state = "finished" \/ gen.taken = Len(gen.src)
       THEN gen' = [gen EXCEPT !.state = "finished", !.last = "StopIteration", !.missing = <<>>]
       ELSE \E out \in TransformResult(fs, gen.src[gen.taken + 1], gen.sample, NoScaler) :
               gen' = IF out.err = "none"
                      THEN [gen EXCEPT !.state = "suspended", !.taken = @ + 1,
                                       !.yielded = Append(@, out.som),
                                       !.last = "som", !.missing = <<>>]
                      ELSE [gen EXCEPT !.state = "finished", !.taken = @ + 1,
                                       !.last = out.err, !.missing = out.missing]
    /\ UNCHANGED <<somVars, padVars, dsVars, collVars, auxVars>>

GenInit ==
    /\ fs \in TrainedSoms
    /\ store = NoStore
    /\ ret = NoRet
    /\ ntrain = 1
    /\ PadIdle
    /\ DataIdle
    /\ GenIdle
    /\ AuxIdle
    /\ CollIdle

GenStep ==
    \/ \E data \in Sources, sample \in SampleArgs : GenCreate(data, sample)
    \/ GenNext

SpecGen == GenInit /\ [][GenStep]_vars

-----------------------------------------------------------------------------
(* SOMCollection (flowcat/dataset/som.py).  A SOM object is named by a number
   given when it is made (read from storage, or made by the caller for add_som);
   0 stands for None and for "not in _data".  tubepaths holds the tubes that
   have a path; unreadable holds those of them whose file cannot be opened or
   parsed, so that path.open or pd.read_csv raises. *)

Tubes == 1..MaxTube

\* the tubes lists: tube numbers without repetition
TubeLists ==
    UNION { {q \in [1..k -> Tubes] : \A i, j \in 1..k : i # j => q[i] # q[j]} : k \in 0..MaxTube }

\* get_tube without the store into _data
GetTubeUncached(c, r, tube) ==
    IF c.data[tube] # 0
    THEN [coll |-> c, reads |-> r, err |-> "none", val |-> c.data[tube], read |-> FALSE]
    ELSE IF ~InSeq(c.tubes, tube)
    THEN [coll |-> c, reads |-> r, err |-> "none", val |-> 0, read |-> FALSE]
    ELSE IF tube \notin c.tubepaths
    THEN [coll |-> c, reads |-> r, err |-> "KeyError", val |-> 0, read |-> FALSE]
    ELSE IF tube \in c.unreadable
    THEN [coll |-> c, reads |-> [r EXCEPT ![tube] = @ + 1], err |-> "OSError",
          val |-> 0, read |-> TRUE]
    ELSE [coll |-> [c EXCEPT !.made = @ + 1],
          reads |-> [r EXCEPT ![tube] = @ + 1], err |-> "none", val |-> c.made + 1,
          read |-> TRUE]

\* get_tube without the test of the tubes list
GetTubeNoProbe(c, r, tube) ==
    IF c.data[tube] # 0
    THEN [coll |-> c, reads |-> r, err |-> "none", val |-> c.data[tube], read |-> FALSE]
    ELSE IF tube \notin c.tubepaths
    THEN [coll |-> c, reads |-> r, err |-> "KeyError", val |-> 0, read |-> FALSE]
    ELSE IF tube \in c.unreadable
    THEN \* path.open or read_csv raises before self._data[tube] is assigned
         [coll |-> c, reads |-> [r EXCEPT ![tube] = @ + 1], err |-> "OSError",
          val |-> 0, read |-> TRUE]
    ELSE [coll |-> [c EXCEPT !.data[tube] = c.made + 1, !.made = @ + 1],
          reads |-> [r EXCEPT ![tube] = @ + 1], err |-> "none", val |-> c.made + 1,
          read |-> TRUE]

\* SOMCollection.get_tube on the collection c with the storage reads r: the
\* collection and the reads after the call, the value returned or the error raised
GetTubeResult(c, r, tube) ==
    IF c.data[tube] # 0
    THEN [coll |-> c, reads |-> r, err |-> "none", val |-> c.data[tube], read |-> FALSE]
    ELSE IF ~InSeq(c.tubes, tube)
    THEN [coll |-> c, reads |-> r, err |-> "none", val |-> 0, read |-> FALSE]
    ELSE IF tube \notin c.tubepaths
    THEN [coll |-> c, reads |-> r, err |-> "KeyError", val |-> 0, read |-> FALSE]
    ELSE IF tube \in c.unreadable
    THEN \* path.open or read_csv raises before self._data[tube] is assigned
         [coll |-> c, reads |-> [r EXCEPT ![tube] = @ + 1], err |-> "OSError",
          val |-> 0, read |-> TRUE]
    ELSE [coll |-> [c EXCEPT !.data[tube] = c.made + 1, !.made = @ + 1],
          reads |-> [r EXCEPT ![tube] = @ + 1], err |-> "none", val |-> c.made + 1,
          read |-> TRUE]

\* the reads counted stay within the bound
WithinReads(r) == \A t \in Tubes : r[t] <= MaxReads

\* collection.get_tube(tube)
GetTube(tube) ==
    /\ coll.data # <<>>
    /\ LET g == GetTubeResult(coll, reads, tube) IN
       /\ WithinReads(g.reads)
       /\ coll' = g.coll
       /\ reads' = g.reads
       /\ collRet' = [op |-> "get_tube", tube |-> tube, err |-> g.err, val |-> g.val,
                      read |-> g.read]
    /\ UNCHANGED <<somVars, padVars, dsVars, genVars, auxVars>>

\* the loop of load from the i-th tube of the list on; an error ends it
RECURSIVE LoadFrom(_, _, _)
LoadFrom(c, r, i) ==
    IF i > Len(c.tubes) THEN [coll |-> c, reads |-> r, err |-> "none"]
    ELSE LET g == GetTubeResult(c, r, c.tubes[i]) IN
         IF g.err # "none" THEN [coll |-> g.coll, reads |-> g.reads, err |-> g.err]
         ELSE LoadFrom(g.coll, g.reads, i + 1)

\* collection.load()
LoadAll ==
    /\ coll.data # <<>>
    /\ LET l == LoadFrom(coll, reads, 1) IN
       /\ WithinReads(l.reads)
       /\ coll' = l.coll
       /\ reads' = l.reads
       /\ collRet' = [NoCollRet EXCEPT !.op = "load", !.err = l.err,
                                       !.read = (l.reads # reads)]
    /\ UNCHANGED <<somVars, padVars, dsVars, genVars, auxVars>>

\* collection.add_som(data) with a SOM made by the caller, data.tube = tube
AddSom(tube) ==
    /\ coll.data # <<>>
    /\ coll.added < MaxAdded
    /\ coll' = [coll EXCEPT !.data[tube] = coll.made + 1, !.made = @ + 1, !.added = @ + 1,
                            !.tubes = IF InSeq(@, tube) THEN @ ELSE Append(@, tube)]
    /\ collRet' = [NoCollRet EXCEPT !.op = "add_som", !.tube = tube, !.val = coll.made + 1]
    /\ UNCHANGED <<reads, somVars, padVars, dsVars, genVars, auxVars>>

\* iter(collection)
Iter ==
    /\ coll.data # <<>>
    /\ coll' = [coll EXCEPT !.index = 0, !.max_index = Len(coll.tubes)]
    /\ collRet' = [NoCollRet EXCEPT !.op = "iter"]
    /\ UNCHANGED <<reads, somVars, padVars, dsVars, genVars, auxVars>>

\* next(collection)
NextSom ==
    /\ coll.data # <<>>
    /\ IF coll.index < coll.max_index
       THEN LET tube == coll.tubes[coll.index + 1]
                g == GetTubeResult([coll EXCEPT !.index = @ + 1], reads, tube)
            IN  /\ WithinReads(g.reads)
                /\ coll' = g.coll
                /\ reads' = g.reads
                /\ collRet' = [op |-> "next", tube |-> tube, err |-> g.err, val |-> g.val,
                               read |-> g.read]
       ELSE /\ collRet' = [NoCollRet EXCEPT !.op = "next", !.err = "StopIteration"]
            /\ UNCHANGED <<coll, reads>>
    /\ UNCHANGED <<somVars, padVars, dsVars, genVars, auxVars>>

\* SOMCollection(path, cases, tubes, tubepaths): nothing cached, nothing read; at
\* most one of the files is unreadable
CollInit ==
    /\ SomIdle
    /\ PadIdle
    /\ DataIdle
    /\ GenIdle
    /\ AuxIdle
    /\ \E tubes \in TubeLists, paths \in SUBSET Tubes :
          \E bad \in {{}} \cup {{t} : t \in paths} :
             coll = [NoColl EXCEPT !.tubes = tubes, !.tubepaths = paths,
                                   !.unreadable = bad, !.data = [t \in Tubes |-> 0]]
    /\ reads = [t \in Tubes |-> 0]
    /\ collRet = NoCollRet

CollNext ==
    \/ \E tube \in Tubes : GetTube(tube)
    \/ LoadAll
    \/ \E tube \in Tubes : AddSom(tube)
    \/ Iter
    \/ NextSom

SpecColl == CollInit /\ [][CollNext]_vars

-----------------------------------------------------------------------------
(* Two for-loops over one SOMCollection: iter(collection) returns the collection
   itself, so both loops advance the same _index *)

\* the two loops, e.g. the outer and the inner of a nested loop
LoopNames == {"outer", "inner"}

\* for som in collection: the loop calls iter(collection) once when it starts
LoopBegin(c) ==
    /\ loops[c].state = "new"
    /\ coll' = [coll EXCEPT !.index = 0, !.max_index = Len(coll.tubes)]
    /\ loops' = [loops EXCEPT ![c].state = "running"]
    /\ collRet' = [NoCollRet EXCEPT !.op = "iter"]
    /\ UNCHANGED <<reads, somVars, padVars, dsVars, genVars, sseq, call>>

\* the loop calls next(collection): it receives a SOM, or StopIteration ends it
LoopStep(c) ==
    /\ loops[c].state = "running"
    /\ IF coll.index < coll.max_index
       THEN LET tube == coll.tubes[coll.index + 1]
                g == GetTubeResult([coll EXCEPT !.index = @ + 1], reads, tube)
            IN  /\ WithinReads(g.reads)
                /\ coll' = g.coll
                /\ reads' = g.reads
                /\ collRet' = [op |-> "next", tube |-> tube, err |-> g.err, val |-> g.val,
                               read |-> g.read]
                /\ loops' = IF g.err = "none"
                            THEN [loops EXCEPT ![c].got = Append(@, tube)]
                            ELSE [loops EXCEPT ![c].state = "failed"]
       ELSE /\ collRet' = [NoCollRet EXCEPT !.op = "next", !.err = "StopIteration"]
            /\ loops' = [loops EXCEPT ![c].state = "done"]
            /\ UNCHANGED <<coll, reads>>
    /\ UNCHANGED <<somVars, padVars, dsVars, genVars, sseq, call>>

\* a collection with a storage location for every tube of its list, some of the
\* tubes cached already, and two loops that have not started
IterInit ==
    /\ SomIdle
    /\ PadIdle
    /\ DataIdle
    /\ GenIdle
    /\ sseq = NoSeq
    /\ call = NoCall
    /\ \E tubes \in TubeLists, cached \in SUBSET Tubes :
          /\ cached \subseteq SeqRange(tubes)
          /\ coll = [NoColl EXCEPT !.tubes = tubes, !.tubepaths = SeqRange(tubes),
                                   !.data = [t \in Tubes |-> IF t \in cached THEN t ELSE 0],
                                   !.made = MaxTube]
          /\ reads = [t \in Tubes |-> IF t \in cached THEN 1 ELSE 0]
    /\ collRet = NoCollRet
    /\ loops = [c \in LoopNames |-> [state |-> "new", got |-> <<>>]]

IterNext == \E c \in LoopNames : LoopBegin(c) \/ LoopStep(c)

SpecIter == IterInit /\ [][IterNext]_vars

-----------------------------------------------------------------------------
(* Padding: SOM.np_array (flowcat/dataset/som.py) and pad_array
   (flowcat/som_dataset.py) *)

PadMarkerLists == { <<"CD45">>, <<"CD45", "SS">> }

\* the prototype grids of r x c nodes: the SOM holds one data row per node, row-major,
\* as FCSSom.weights builds it; every cell value is distinct within a grid
PadShapes == (1..MaxSide) \X (1..MaxSide) \X PadMarkerLists

PadGridOf(r, c, ms, a) ==
    [rows |-> r, cols |-> c,
     som |-> [markers |-> ms,
              data |-> [k \in 1..(r * c) |-> [x \in 1..Len(ms) |-> 100 * a[k] + 10 * k + x]],
              transforms |-> <<>>]]

PadGrids ==
    UNION { {PadGridOf(sh[1], sh[2], sh[3], a) : a \in [1..(sh[1] * sh[2]) -> {0, 1}]}
            : sh \in PadShapes }

\* the grid as the 3-dimensional array rows x cols x markers that is stored per case
GridArray(g) == [i \in 1..g.rows |-> [j \in 1..g.cols |-> g.som.data[(i - 1) * g.cols + j]]]

\* np.pad(..., mode="wrap") along one axis: whole periods of the original are
\* copied outwards until p places are filled on each side
RECURSIVE WrapLeft(_, _)
WrapLeft(orig, p) ==
    IF p = 0 THEN <<>>
    ELSE IF p <= Len(orig) THEN SubSeq(orig, Len(orig) - p + 1, Len(orig))
    ELSE WrapLeft(orig, p - Len(orig)) \o orig

RECURSIVE WrapRight(_, _)
WrapRight(orig, p) ==
    IF p = 0 THEN <<>>
    ELSE IF p <= Len(orig) THEN SubSeq(orig, 1, p)
    ELSE orig \o WrapRight(orig, p - Len(orig))

WrapPadAxis(seq, p) == WrapLeft(seq, p) \o seq \o WrapRight(seq, p)

\* np.pad(array, [(p, p), (p, p), (0, 0)], mode="wrap")
NpPadWrap(array, p) ==
    LET rowsPadded == WrapPadAxis(array, p) IN
    [i \in 1..Len(rowsPadded) |-> WrapPadAxis(rowsPadded[i], p)]

\* np.reshape(self.data.values, (*self.dims, -1)): the values row-major, cut into
\* dims[0] x dims[1] cells of equal length; an error when they do not divide
NpReshape(som) ==
    LET ncol  == Len(som.markers)
        total == Len(som.data) * ncol
        d     == SOMDims(som)
        cells == d[1] * d[2]
        flat  == [i \in 1..total |-> som.data[((i - 1) \div ncol) + 1][((i - 1) % ncol) + 1]]
    IN  IF total % cells # 0
        THEN [err |-> "ValueError", out |-> <<>>]
        ELSE LET third == total \div cells IN
             [err |-> "none",
              out |-> [i \in 1..d[1] |-> [j \in 1..d[2] |->
                         [k \in 1..third |-> flat[((i - 1) * d[2] + (j - 1)) * third + k]]]]]

\* som.np_array(pad_width)
NpArray(p) ==
    /\ LET shaped == NpReshape(padGrid.som) IN
       padRet' = [op |-> "np_array", pad |-> p, err |-> shaped.err,
                  out |-> IF shaped.err # "none" THEN <<>>
                          ELSE IF p # 0 THEN NpPadWrap(shaped.out, p) ELSE shaped.out]
    /\ UNCHANGED <<padGrid, somVars, dsVars, genVars, collVars, auxVars>>

\* pad_array(array, pad_width) on the stored 3-dimensional grid
PadArray(p) ==
    /\ padRet' = [op |-> "pad_array", pad |-> p, err |-> "none",
                  out |-> IF p > 0 THEN NpPadWrap(GridArray(padGrid), p) ELSE GridArray(padGrid)]
    /\ UNCHANGED <<padGrid, somVars, dsVars, genVars, collVars, auxVars>>

PadInit ==
    /\ SomIdle
    /\ DataIdle
    /\ GenIdle
    /\ AuxIdle
    /\ CollIdle
    /\ padGrid \in PadGrids
    /\ padRet = NoPadRet

PadNext ==
    \/ \E p \in 0..MaxPad : NpArray(p)
    \/ \E p \in 0..MaxPad : PadArray(p)

SpecPad == PadInit /\ [][PadNext]_vars

-----------------------------------------------------------------------------
(* SOMDataset (flowcat/som_dataset.py).  An entry is a reference to a SOMCase,
   named by its label.  Every operation that builds a Series ends with a uniformly
   random shuffle of it, so a Series is recorded as the bag of its entries: the
   number of times each case occurs in it. *)

Groups == {"CLL", "normal"}

\* split ratios <<numerator, denominator>> (exact as floats)
Ratios == { <<1, 4>>, <<1, 2>>, <<3, 4>> }

\* Python round(num / den) for num >= 0: to the nearest integer, a tie to the even one
Round(num, den) ==
    LET q == num \div den
        r == num % den
    IN  IF 2 * r < den THEN q
        ELSE IF 2 * r > den THEN q + 1
        ELSE IF q % 2 = 0 THEN q ELSE q + 1

\* len() of a Series: the number of entries in the bag
RECURSIVE BagTotal(_, _)
BagTotal(bag, S) ==
    IF S = {} THEN 0
    ELSE LET e == CHOOSE x \in S : TRUE IN bag[e] + BagTotal(bag, S \ {e})

\* the cases of one group (the groupby key is the case's group field)
GroupCases(cg, g) == {e \in DOMAIN cg : cg[e] = g}

\* len(data) inside the groupby loop: the entries of group g
GroupLen(bag, cg, g) == BagTotal(bag, GroupCases(cg, g))

\* the case labels that occur in a Series
Labels(bag) == {e \in DOMAIN bag : bag[e] > 0}

\* the bags of n entries over the cases S: the parts a group can contribute
Parts(S, n) == {p \in [S -> 0..n] : BagTotal(p, S) = n}

\* pd.concat of one part per group: parts[g] is the set of bags group g can
\* contribute; the result counts, for every label, its entries in the part of its group
RECURSIVE ConcatGroups(_, _, _)
ConcatGroups(labels, parts, gs) ==
    IF gs = {} THEN {[e \in labels |-> 0]}
    ELSE LET g == CHOOSE x \in gs : TRUE
             rest == ConcatGroups(labels, parts, gs \ {g})
         IN  {[e \in labels |-> IF e \in DOMAIN p THEN p[e] ELSE r[e]] : p \in parts[g], r \in rest}

\* data[:pivot] of a group's shuffled entries: any pivot of the entries of the group
Heads(data, S, pivot) == {p \in Parts(S, pivot) : \A e \in S : p[e] <= data[e]}

\* a split that hands the head of each group's shuffled entries to validate and
\* the rest to train
SwappedTrains(data, cg, ratio) ==
    ConcatGroups(DOMAIN data,
                 [g \in Groups |->
                    Heads(data, GroupCases(cg, g),
                          GroupLen(data, cg, g)
                             - Round(ratio[1] * GroupLen(data, cg, g), ratio[2]))],
                 Groups)

\* the stratified branch of split: each group shuffled and cut at
\* pivot = round(ratio * len(group)); the head goes to train and the rest to
\* validate, so train holds any pivot of the group's entries
StratifiedTrains(data, cg, ratio) ==
    ConcatGroups(DOMAIN data,
                 [g \in Groups |->
                    Heads(data, GroupCases(cg, g),
                          Round(ratio[1] * GroupLen(data, cg, g), ratio[2]))],
                 Groups)

\* a split whose validate partition is every group's data[0:]
WholeTails(data, train) == data

\* data[pivot:] of every group: the entries that are not in the head data[:pivot]
Tails(data, train) == [e \in DOMAIN data |-> data[e] - train[e]]

\* dataset.split(ratio, stratified)
Split(ratio, stratified) ==
    /\ IF stratified /\ Labels(dsData) = {}
       THEN \* no group: pd.concat of an empty list
            dsRet' = [NoDsRet EXCEPT !.op = "split", !.err = "ValueError", !.ratio = ratio]
       ELSE IF stratified
       THEN \E t \in StratifiedTrains(dsData, caseGroup, ratio) :
               dsRet' = [NoDsRet EXCEPT !.op = "split", !.ratio = ratio, !.train = t,
                            !.validate = Tails(dsData, t)]
       ELSE dsRet' = [NoDsRet EXCEPT !.op = "split", !.err = "UnboundLocalError",
                                     !.ratio = ratio, !.stratified = FALSE]
    /\ UNCHANGED <<dsData, caseGroup, somVars, padVars, genVars, collVars, auxVars>>

\* gdata.sample(n, replace=True): n draws from the entries of a group, every draw
\* any of them; a group without entries is not in the groupby and contributes nothing
Draws(data, S, n) ==
    IF BagTotal(data, S) = 0 THEN {[e \in S |-> 0]}
    ELSE {p \in Parts(S, n) : \A e \in S : p[e] > 0 => data[e] > 0}

\* gdata.sample(n, replace=True) for every group, concatenated: n entries of each
\* group that occurs, every one a draw from that group's entries
BalancedData(data, cg, n) ==
    ConcatGroups(DOMAIN data,
                 [g \in Groups |-> Draws(data, GroupCases(cg, g), n)],
                 Groups)

\* dataset.balance(num_per_group): replaces the dataset's entries in place and
\* returns the dataset itself
Balance(n) ==
    /\ IF Labels(dsData) = {}
       THEN \* no group: pd.concat of an empty list, before self.data is assigned
            /\ dsData' = dsData
            /\ dsRet' = [NoDsRet EXCEPT !.op = "balance", !.err = "ValueError",
                                        !.targets = [g \in Groups |-> n]]
       ELSE /\ \E b \in BalancedData(dsData, caseGroup, n) : dsData' = b
            /\ dsRet' = [NoDsRet EXCEPT !.op = "balance", !.targets = [g \in Groups |-> n]]
    /\ UNCHANGED <<caseGroup, somVars, padVars, genVars, collVars, auxVars>>

\* the num_per_group dicts: a count for each group, Absent for a group that is no key
Absent == 0 - 1
TargetMaps == [Groups -> {Absent} \cup 0..MaxPerGroup]

\* the groups of the dataset that are keys of num_per_group (the others raise
\* KeyError in the loop and are skipped)
KeptGroups(data, cg, targets) ==
    {g \in Groups : GroupLen(data, cg, g) > 0 /\ targets[g] # Absent}

\* gdata.sample(num_per_group[name], replace=True) for every kept group, concatenated
BalancedPerGroup(data, cg, targets) ==
    ConcatGroups(DOMAIN data,
                 [g \in Groups |->
                    Draws(data, GroupCases(cg, g),
                          IF g \in KeptGroups(data, cg, targets) THEN targets[g] ELSE 0)],
                 Groups)

\* dataset.balance_per_group(num_per_group): replaces the dataset's entries in place
\* and returns the dataset itself
BalancePerGroup(targets) ==
    /\ IF KeptGroups(dsData, caseGroup, targets) = {}
       THEN \* nothing appended: pd.concat of an empty list, before self.data is assigned
            /\ dsData' = dsData
            /\ dsRet' = [NoDsRet EXCEPT !.op = "balance_per_group", !.err = "ValueError",
                                        !.targets = targets]
       ELSE /\ \E b \in BalancedPerGroup(dsData, caseGroup, targets) : dsData' = b
            /\ dsRet' = [NoDsRet EXCEPT !.op = "balance_per_group", !.targets = targets]
    /\ UNCHANGED <<caseGroup, somVars, padVars, genVars, collVars, auxVars>>

\* the mapping dicts of map_groups: a new group for each key, NoKey for a group
\* that is no key
NoKey == "-"
GroupMappings == [Groups -> Groups \cup {NoKey}]

\* mapping.get(group, group)
MapGet(mapping, g) == IF mapping[g] = NoKey THEN g ELSE mapping[g]

\* the group of a SOMCase after the loop has passed k entries that refer to it
RECURSIVE MapTimes(_, _, _)
MapTimes(mapping, g, k) ==
    IF k = 0 THEN g ELSE MapTimes(mapping, MapGet(mapping, g), k - 1)

\* dataset.map_groups(mapping): case.group is assigned for every entry of the
\* dataset, on the SOMCase object the entry refers to; returns the dataset itself
MapGroups(mapping) ==
    /\ caseGroup' = [e \in DOMAIN caseGroup |-> MapTimes(mapping, caseGroup[e], dsData[e])]
    /\ dsRet' = [NoDsRet EXCEPT !.op = "map_groups", !.mapping = mapping]
    /\ UNCHANGED <<dsData, somVars, padVars, genVars, collVars, auxVars>>

\* SOMDataset.from_path: one entry per metadata row, the labels distinct
DataInit ==
    /\ SomIdle
    /\ PadIdle
    /\ GenIdle
    /\ AuxIdle
    /\ CollIdle
    /\ \E k \in 1..MaxCases :
          /\ dsData = [i \in 1..k |-> 1]
          /\ caseGroup \in [1..k -> Groups]
    /\ dsRet = NoDsRet

DataNext ==
    \/ \E ratio \in Ratios, stratified \in BOOLEAN : Split(ratio, stratified)
    \/ \E n \in 1..MaxPerGroup : Balance(n)
    \/ \E targets \in TargetMaps : BalancePerGroup(targets)
    \/ \E mapping \in GroupMappings : MapGroups(mapping)

SpecData == DataInit /\ [][DataNext]_vars

-----------------------------------------------------------------------------
(* FCSSom.add_weight_images / add_weight_image / create_color_map
   (flowcat/som/fcssom.py) *)

\* None in a marker tuple: the colour channel is left empty
NoMarker == "None"

\* the 3-tuples of markers an image is made of
ImageTuples == { <<"CD45", "SS", NoMarker>>, <<"SS", NoMarker, "CD45">>,
                 <<"CD45", "CD19", "SS">>, <<"CD19", NoMarker, "CD3">> }

\* marker_dict: the images in insertion order, the name of an image being its place
MarkerDicts == UNION { [1..k -> ImageTuples] : k \in 1..MaxImages }

\* the loop of add_weight_image: the column of every marker, None for None, and the
\* markers that are not in self.markers
ImageCols(o, markers) ==
    LET present(i) == markers[i] = NoMarker \/ InSeq(o.markers, markers[i])
        idx == {i \in 1..Len(markers) : present(i)}
        mis == {i \in 1..Len(markers) : ~present(i)}
        pick(S) == [k \in 1..Cardinality(S) |->
                      CHOOSE i \in S : Cardinality({j \in S : j < i}) = k - 1]
    IN  [cols    |-> [k \in 1..Cardinality(idx) |->
                        IF markers[pick(idx)[k]] = NoMarker THEN 0
                        ELSE IndexOf(o.markers, markers[pick(idx)[k]])],
         missing |-> [k \in 1..Cardinality(mis) |-> markers[pick(mis)[k]]]]

\* tf.reshape of rows x 3 values to shape (1, d1, d2, 3): at most one of the sizes
\* may be -1, and the sizes have to fit the number of values
ReshapeFits(rows, d1, d2) ==
    IF d1 = -1 /\ d2 = -1 THEN FALSE
    ELSE IF d1 = -1 THEN d2 > 0 /\ rows % d2 = 0
    ELSE IF d2 = -1 THEN d1 > 0 /\ rows % d1 = 0
    ELSE d1 * d2 = rows

\* create_color_map(self.model._weights, cols, img_size=self.dims[:2]): the error
\* it raises, or none
CreateColorMap(o, cols) ==
    IF Len(cols) # 3 THEN "AssertionError"
    ELSE IF \E k \in 1..3 : cols[k] > o.shape[3] THEN "ValueError"
    ELSE IF ~ReshapeFits(o.shape[1] * o.shape[2], o.dims[1], o.dims[2]) THEN "ValueError"
    ELSE "none"

\* add_weight_image(name, markers): MarkerMissingError with the missing markers,
\* another error, or the summary added
AddWeightImage(o, markers) ==
    LET c == ImageCols(o, markers) IN
    IF c.missing # <<>> THEN [err |-> "MarkerMissingError", missing |-> c.missing]
    ELSE [err |-> CreateColorMap(o, c.cols), missing |-> <<>>]

\* the loop of add_weight_images from the i-th image on: a MarkerMissingError is
\* logged and the loop goes on, any other error ends the call
RECURSIVE AddFrom(_, _, _, _)
AddFrom(o, dict, i, acc) ==
    IF i > Len(dict) THEN acc
    ELSE LET r == AddWeightImage(o, dict[i]) IN
         IF r.err = "none"
         THEN AddFrom(o, dict, i + 1, [acc EXCEPT !.added = Append(@, i)])
         ELSE IF r.err = "MarkerMissingError"
         THEN AddFrom(o, dict, i + 1, [acc EXCEPT !.warned = Append(@, <<i, r.missing>>)])
         ELSE [acc EXCEPT !.err = r.err]

\* fcssom.add_weight_images(marker_dict)
AddWeightImages(dict) ==
    /\ fs.exists
    /\ call = NoCall
    /\ call' = AddFrom(fs, dict, 1,
                       [fn |-> "add_weight_images", dict |-> dict, added |-> <<>>,
                        warned |-> <<>>, err |-> "none"])
    /\ UNCHANGED <<somVars, padVars, dsVars, genVars, collVars, loops, sseq>>

\* the instances FCSSom(...) builds from the dims and marker lists above
BuiltSoms ==
    { r.obj : r \in
        { FCSSomInit(d, "random", RefSom, m, [kind |-> "MinMaxScaler", params |-> Unfitted])
            : d \in DimsRandom, m \in MarkerLists }
        \cup
        { FCSSomInit(d, "reference", RefSom, <<>>, [kind |-> "MinMaxScaler", params |-> Unfitted])
            : d \in DimsReference } }

ImgInit ==
    /\ fs \in BuiltSoms
    /\ store = NoStore
    /\ ret = NoRet
    /\ ntrain = 0
    /\ PadIdle
    /\ DataIdle
    /\ GenIdle
    /\ CollIdle
    /\ AuxIdle

ImgNext == \E dict \in MarkerDicts : AddWeightImages(dict)

SpecImg == ImgInit /\ [][ImgNext]_vars

-----------------------------------------------------------------------------
(* SOMSequence (flowcat/som_dataset.py): batches of a SOMDataset with a cache *)

\* the datasets a sequence is made over: the cases in order, labelled by their place
SeqDatasets ==
    UNION { [1..n -> [label : {0}, group : Groups]] : n \in 0..MaxCases }

BatchSizes == 1..MaxBatch

\* SOMSequence.__len__: int(np.ceil(len(self.dataset) / float(self.batch_size)))
SeqLen(s) == (Len(s.dataset) + s.batch_size - 1) \div s.batch_size

\* self.dataset[lo:hi]: SOMDataset is a plain dataclass that defines __len__ but no
\* __getitem__, so that subscripting it raises TypeError
DatasetSlice(dataset, lo, hi) ==
    [err |-> "TypeError", batch |-> <<>>]

\* s.get_tube(tube, kind="som") for the cases of a batch and the tubes of the
\* sequence: SOMCase.get_tube(tube, store) takes no argument named kind
BatchInputs(batch, tubes) ==
    IF batch = <<>> \/ tubes = <<>> THEN "none" ELSE "TypeError"

\* SOMSequence.__getitem__(idx)
SeqGetItemResult(s, idx) ==
    IF idx \in DOMAIN s.cache
    THEN [s EXCEPT !.last = [op |-> "getitem", idx |-> idx, err |-> "none",
                             out |-> s.cache[idx], computed |-> FALSE]]
    ELSE LET sl == DatasetSlice(s.dataset, idx * s.batch_size, (idx + 1) * s.batch_size)
             err == IF sl.err # "none" THEN sl.err ELSE BatchInputs(sl.batch, s.tube)
             out == [k \in 1..Len(sl.batch) |-> sl.batch[k]]
         IN  IF err # "none"
             THEN [s EXCEPT !.last = [op |-> "getitem", idx |-> idx, err |-> err,
                                      out |-> <<>>, computed |-> TRUE]]
             ELSE [s EXCEPT !.cache = [j \in DOMAIN s.cache \cup {idx} |->
                                          IF j = idx THEN out ELSE s.cache[j]],
                            !.last = [op |-> "getitem", idx |-> idx, err |-> "none",
                                      out |-> out, computed |-> TRUE]]

SeqGetItem(idx) ==
    /\ sseq.exists
    /\ idx < SeqLen(sseq)
    /\ sseq' = SeqGetItemResult(sseq, idx)
    /\ UNCHANGED <<somVars, padVars, dsVars, genVars, collVars, loops, call>>

\* SOMSequence(dataset, binarizer, tube, batch_size): the cache starts empty
SeqInit ==
    /\ SomIdle
    /\ PadIdle
    /\ DataIdle
    /\ GenIdle
    /\ CollIdle
    /\ loops = NoLoops
    /\ call = NoCall
    /\ \E d \in SeqDatasets, b \in BatchSizes, t \in TubeLists :
          sseq = [exists |-> TRUE,
                  dataset |-> [i \in 1..Len(d) |-> [d[i] EXCEPT !.label = i]],
                  tube |-> t, batch_size |-> b, cache |-> <<>>,
                  last |-> [op |-> "none", idx |-> 0, err |-> "none", out |-> <<>>,
                            computed |-> FALSE]]

SeqNext == \E idx \in 0..MaxCases : SeqGetItem(idx)

SpecSeq == SeqInit /\ [][SeqNext]_vars

-----------------------------------------------------------------------------
(* deduplicate_cases_by_sureness and infer_sureness (00a_dataset_prepare.py) *)

\* Sureness(enum.IntEnum)
SurenessHigh == 10
SurenessNormal == 5
SurenessLow == 1

\* what a case carries for infer_sureness: its group and the texts of its sureness
\* description and of its diagnosis, as they are recorded
CaseKinds ==
    { [group |-> "FL",  sureness |-> "Mit Nachweis eines IGH-BCL2 Rearrangements",
       diagnosis |-> ""],
      [group |-> "FL",  sureness |-> "", diagnosis |-> "Follikulaeres Lymphom"],
      [group |-> "MCL", sureness |-> "ohne FISH-Sonde", diagnosis |-> ""],
      [group |-> "MCL", sureness |-> "Kein Nachweis einer 11;14-Translokation",
       diagnosis |-> ""],
      [group |-> "PL",  sureness |-> "Kein Nachweis einer 11;14-Translokation",
       diagnosis |-> ""],
      [group |-> "PL",  sureness |-> "Nachweis einer 11;14-Translokation",
       diagnosis |-> ""],
      [group |-> "LPL", sureness |-> "", diagnosis |-> "Lymphoplasmozytisches Lymphom"],
      [group |-> "MZL", sureness |-> "", diagnosis |-> "Mantelzelllymphom"] }

\* the letters str.lower() changes in the texts of the cases
UpperToLower ==
    "A" :> "a" @@ "B" :> "b" @@ "C" :> "c" @@ "D" :> "d" @@ "E" :> "e" @@ "F" :> "f"
    @@ "G" :> "g" @@ "H" :> "h" @@ "I" :> "i" @@ "J" :> "j" @@ "K" :> "k" @@ "L" :> "l"
    @@ "M" :> "m" @@ "N" :> "n" @@ "O" :> "o" @@ "P" :> "p" @@ "Q" :> "q" @@ "R" :> "r"
    @@ "S" :> "s" @@ "T" :> "t" @@ "U" :> "u" @@ "V" :> "v" @@ "W" :> "w" @@ "X" :> "x"
    @@ "Y" :> "y" @@ "Z" :> "z"

\* str.lower(), letter by letter
RECURSIVE Lower(_)
Lower(text) ==
    IF Len(text) = 0 THEN ""
    ELSE LET c == SubSeq(text, 1, 1) IN
         (IF c \in DOMAIN UpperToLower THEN UpperToLower[c] ELSE c)
            \o Lower(SubSeq(text, 2, Len(text)))

\* phrase in text: the phrase occurs somewhere in the text
Contains(text, phrase) ==
    \E i \in 1..(Len(text) - Len(phrase) + 1) :
        SubSeq(text, i, i + Len(phrase) - 1) = phrase

\* infer_sureness(case)
InferSureness(case) ==
    LET sureness_desc == Lower(case.sureness)
        short_diag == Lower(case.diagnosis)
    IN  IF case.group = "FL"
        THEN IF Contains(sureness_desc, "nachweis eines igh-bcl2") THEN SurenessHigh
             ELSE SurenessNormal
        ELSE IF case.group = "MCL"
        THEN IF Contains(sureness_desc, "mit nachweis ccnd1-igh") THEN SurenessHigh
             ELSE IF Contains(sureness_desc, "nachweis eines igh-ccnd1") THEN SurenessHigh
             ELSE IF Contains(sureness_desc, "nachweis einer 11;14-translokation")
             THEN SurenessHigh
             ELSE IF Contains(short_diag, "mantelzelllymphom") THEN SurenessHigh
             ELSE IF Contains(sureness_desc, "ohne fish-sonde") THEN SurenessLow
             ELSE SurenessNormal
        ELSE IF case.group = "PL"
        THEN IF Contains(sureness_desc, "kein nachweis eines igh-ccnd1") THEN SurenessHigh
             ELSE IF Contains(sureness_desc, "kein nachweis einer 11;14-translokation")
             THEN SurenessHigh
             ELSE IF Contains(sureness_desc, "nachweis einer 11;14-translokation")
             THEN SurenessLow
             ELSE SurenessNormal
        ELSE IF case.group = "LPL"
        THEN IF Contains(short_diag, "lymphoplasmozytisches lymphom") THEN SurenessHigh
             ELSE SurenessNormal
        ELSE IF case.group = "MZL"
        THEN IF Contains(short_diag, "marginalzonenlymphom") THEN SurenessHigh
             ELSE SurenessNormal
        ELSE SurenessNormal

\* infer_sureness of the cases above
SurenessOf == [kind \in CaseKinds |-> InferSureness(kind)]

\* the collections given: cases in order, several of which may carry the same id
DupCaseLists ==
    UNION { [1..n -> [id : 1..MaxIds, kind : CaseKinds]] : n \in 0..MaxDupCases }

\* label_dict: the positions of the cases of an id, in the order of the collection
SameIdCases(cases, id) ==
    SelectSeq([i \in 1..Len(cases) |-> i], LAMBDA i : cases[i].id = id)

\* the keys of label_dict in the order of insertion: ids by first occurrence
RECURSIVE IdOrder(_, _, _)
IdOrder(cases, i, acc) ==
    IF i > Len(cases) THEN acc
    ELSE IdOrder(cases, i + 1,
                 IF InSeq(acc, cases[i].id) THEN acc ELSE Append(acc, cases[i].id))

\* the scores label_dict holds next to the cases: infer_sureness of every case,
\* taken once when the case is put into label_dict
CaseScores(cases) == [i \in 1..Len(cases) |-> SurenessOf[cases[i].kind]]

\* list.sort(key=score, reverse=True): descending and stable
RECURSIVE SortBySureness(_, _)
SortBySureness(scores, idxs) ==
    IF idxs = <<>> THEN <<>>
    ELSE LET score(k) == scores[idxs[k]]
             top == CHOOSE k \in 1..Len(idxs) :
                       /\ \A j \in 1..Len(idxs) : score(j) <= score(k)
                       /\ \A j \in 1..(k - 1) : score(j) < score(k)
             rest == [j \in 1..(Len(idxs) - 1) |-> IF j < top THEN idxs[j] ELSE idxs[j + 1]]
         IN  <<idxs[top]>> \o SortBySureness(scores, rest)

\* a test that keeps the first of the sorted cases on equal scores as well
TopKeptOnTie(scores, sorted) ==
    \/ Len(sorted) = 1
    \/ scores[sorted[1]] >= scores[sorted[2]]

\* len(same_id_cases) == 1 or same_id_cases[0][1] > same_id_cases[1][1]
TopKept(scores, sorted) ==
    \/ Len(sorted) = 1
    \/ scores[sorted[1]] > scores[sorted[2]]

\* the loop over label_dict.values(): the cases kept and the ids removed
RECURSIVE DedupFrom(_, _, _, _, _)
DedupFrom(cases, scores, ids, k, acc) ==
    IF k > Len(ids) THEN acc
    ELSE LET sorted == SortBySureness(scores, SameIdCases(cases, ids[k])) IN
         IF TopKept(scores, sorted)
         THEN DedupFrom(cases, scores, ids, k + 1,
                        [acc EXCEPT !.deduplicated = Append(@, sorted[1])])
         ELSE DedupFrom(cases, scores, ids, k + 1,
                        [acc EXCEPT !.duplicates = Append(@, ids[k])])

\* deduplicate_cases_by_sureness(cases): the cases of the collection returned,
\* named by their place in the collection given
DeduplicateCasesBySureness ==
    /\ call.fn = "cases"
    /\ call' = DedupFrom(call.cases, CaseScores(call.cases),
                         IdOrder(call.cases, 1, <<>>), 1,
                         [fn |-> "deduplicate_cases_by_sureness", cases |-> call.cases,
                          deduplicated |-> <<>>, duplicates |-> <<>>])
    /\ UNCHANGED <<somVars, padVars, dsVars, genVars, collVars, loops, sseq>>

DedupInit ==
    /\ SomIdle
    /\ PadIdle
    /\ DataIdle
    /\ GenIdle
    /\ CollIdle
    /\ loops = NoLoops
    /\ sseq = NoSeq
    /\ call \in [fn : {"cases"}, cases : DupCaseLists]

DedupNext == DeduplicateCasesBySureness

SpecDedup == DedupInit /\ [][DedupNext]_vars

-----------------------------------------------------------------------------
(* GROUPS and GROUP_MAPS (flowcat/constants.py): the merged group vocabularies *)

GROUPS == <<"CLL", "MBL", "MCL", "PL", "LPL", "MZL", "FL", "HCL", "normal">>

GROUP_MAPS ==
    [ 8class |->
        [ groups |-> <<"CM", "MCL", "PL", "LPL", "MZL", "FL", "HCL", "normal">>,
          map    |-> ("CLL" :> "CM" @@ "MBL" :> "CM") ],
      6class |->
        [ groups |-> <<"CM", "MP", "LM", "FL", "HCL", "normal">>,
          map    |-> ("CLL" :> "CM" @@ "MBL" :> "CM" @@ "MZL" :> "LM" @@ "LPL" :> "LM"
                      @@ "MCL" :> "MP" @@ "PL" :> "MP") ],
      5class |->
        [ groups |-> <<"CM", "MP", "LMF", "HCL", "normal">>,
          map    |-> ("CLL" :> "CM" @@ "MBL" :> "CM" @@ "MZL" :> "LMF" @@ "LPL" :> "LMF"
                      @@ "FL" :> "LMF" @@ "MCL" :> "MP" @@ "PL" :> "MP" @@ "LM" :> "LMF") ],
      3class |->
        [ groups |-> <<"CD5+", "CD5-", "normal">>,
          map    |-> ("CLL" :> "CD5+" @@ "MBL" :> "CD5+" @@ "MCL" :> "CD5+" @@ "PL" :> "CD5+"
                      @@ "MZL" :> "CD5-" @@ "LPL" :> "CD5-" @@ "FL" :> "CD5-"
                      @@ "HCL" :> "CD5-" @@ "CM" :> "CD5+" @@ "MP" :> "CD5+"
                      @@ "LM" :> "CD5-" @@ "LMF" :> "CD5-") ],
      2class |->
        [ groups |-> <<"patho", "normal">>,
          map    |-> ("CLL" :> "patho" @@ "MBL" :> "patho" @@ "MCL" :> "patho"
                      @@ "PL" :> "patho" @@ "LPL" :> "patho" @@ "MZL" :> "patho"
                      @@ "FL" :> "patho" @@ "HCL" :> "patho" @@ "CM" :> "patho"
                      @@ "MP" :> "patho" @@ "LM" :> "patho" @@ "LMF" :> "patho"
                      @@ "CD5+" :> "patho" @@ "CD5-" :> "patho") ] ]

\* a remap that turns the groups that are no key of the map into None
RemapOrNone(map, g) == IF g \in DOMAIN map THEN map[g] ELSE "None"

\* mapping.get(g, g): a group that is no key of the map passes through
RemapGroup(map, g) == IF g \in DOMAIN map THEN map[g] ELSE g

\* one pass of a map over a list of groups
RemapList(map, groups) == [i \in 1..Len(groups) |-> RemapGroup(map, groups[i])]

\* the vocabularies a map is applied to: GROUPS and the lists left of it when
\* groups are taken out
Vocabularies ==
    { SelectSeq(GROUPS, LAMBDA g : g \in S) : S \in SUBSET SeqRange(GROUPS) }

\* one more pass of the chosen map over the vocabulary
RemapVocabulary ==
    /\ call.fn \in {"vocabulary", "remap"}
    /\ call.passes < MaxPasses
    /\ call' = [call EXCEPT !.fn = "remap", !.passes = @ + 1, !.before = call.groups,
                            !.groups = RemapList(GROUP_MAPS[call.name].map, call.groups)]
    /\ UNCHANGED <<somVars, padVars, dsVars, genVars, collVars, loops, sseq>>

VocInit ==
    /\ SomIdle
    /\ PadIdle
    /\ DataIdle
    /\ GenIdle
    /\ CollIdle
    /\ loops = NoLoops
    /\ sseq = NoSeq
    /\ \E name \in DOMAIN GROUP_MAPS, v \in Vocabularies :
          call = [fn |-> "vocabulary", name |-> name, source |-> v, groups |-> v,
                  before |-> v, passes |-> 0]

VocNext == RemapVocabulary

SpecVoc == VocInit /\ [][VocNext]_vars

-----------------------------------------------------------------------------
(* Properties of FCSSom, checked under Spec *)

\* C1: a save on an instance whose trained flag is false raises and writes nothing
\* to storage; a save that succeeds was made on a trained instance.
C1_SaveRequiresTrained ==
    [][ret'.op = "save" =>
          /\ (~fs.trained => ret'.err = "RuntimeError" /\ store' = store)
          /\ (ret'.err = "none" => fs.trained /\ store'.present)]_vars

C1_Witness ==
    /\ ret.op = "save" /\ ret.err = "RuntimeError"
    /\ fs.exists /\ ~fs.trained /\ ~store.present

\* C2: trained is false after construction, becomes true only by a train call that
\* returns normally or by load, stays as it was when train raises, and is never
\* set back to false.
C2_TrainedFlag ==
    [][ /\ (~fs.exists /\ fs'.exists => ~fs'.trained)
        /\ (fs.trained => fs'.trained)
        /\ (~fs.trained /\ fs'.trained => ret'.err = "none" /\ ret'.op \in {"train", "load"})
        /\ (ret'.op = "train" /\ ret'.err # "none" => fs'.trained = fs.trained) ]_vars

C2_Witness ==
    /\ ret.op = "train" /\ ret.err = "MarkerMissingError"
    /\ fs.exists /\ ~fs.trained

\* C3 (as claimed): once an instance is trained, no operation on it changes its
\* prototypes or its fitted scaler parameters.
C3_TrainedIsTerminal ==
    [][fs.trained /\ ret'.op # "load" =>
          fs'.weights = fs.weights /\ fs'.scaler = fs.scaler]_vars

\* C4: a transform call leaves the instance's prototype weights, markers, dims,
\* trained flag and scaler as they were; the SOM it returns is a value of its own.
C4_TransformLeavesGrid ==
    [][ret'.op = "transform" =>
          /\ fs'.weights = fs.weights /\ fs'.shape = fs.shape
          /\ fs'.markers = fs.markers /\ fs'.dims = fs.dims
          /\ fs'.trained = fs.trained /\ fs'.scaler = fs.scaler]_vars

C4_Witness ==
    /\ ret.op = "transform" /\ ret.err = "none"
    /\ fs.trained /\ ret.som.data # fs.weights

\* C5: after training, every transformed sample is scaled with the
\* parameters the instance's scaler was fitted with.
C5_ScaledWithFittedParams ==
    ret.op = "transform" /\ ret.err = "none" /\ fs.trained =>
        ret.res = ScalerTransform(fs.scaler.kind, fs.scaler.params, ret.aligned.data)

\* C6: aligning a transform input to the instance's markers either succeeds, when
\* every target marker is among the input's channels, with the columns being the
\* target markers in target order (each holding that marker's values), or raises
\* MarkerMissingError carrying exactly the absent target markers, with no result.
C6_AlignOutcome ==
    ret.op = "transform" =>
        IF SeqRange(fs.markers) \subseteq SeqRange(ret.data.markers)
        THEN /\ ret.err # "MarkerMissingError"
             /\ ret.missing = <<>>
             /\ ret.aligned.markers = fs.markers
             /\ Len(ret.aligned.data) = Len(ret.data.data)
             /\ \A r \in 1..Len(ret.data.data) : \A c \in 1..Len(fs.markers) :
                   \E k \in 1..Len(ret.data.markers) :
                       /\ ret.data.markers[k] = fs.markers[c]
                       /\ ret.aligned.data[r][c] = ret.data.data[r][k]
        ELSE /\ ret.err = "MarkerMissingError"
             /\ SeqRange(ret.missing) = SeqRange(fs.markers) \ SeqRange(ret.data.markers)
             /\ Len(ret.missing) = Cardinality(SeqRange(ret.missing))
             /\ ret.som = NoSom
             /\ ret.aligned.data = <<>>

C6_Witness ==
    /\ ret.op = "transform" /\ ret.err = "MarkerMissingError"
    /\ ret.missing = <<"SS">> /\ ret.data = SampleMissing

\* C7 (as claimed): a construction with a scaler name other than the two supported
\* ones raises InvalidScaler, so every instance carries a supported scaler.
C7_UnsupportedScalerRejected ==
    /\ (ret.op = "init" /\ ret.scaler.kind \notin {"StandardScaler", "MinMaxScaler"}
          => ret.err = "InvalidScaler" /\ ~fs.exists)
    /\ (fs.exists => IsScalerObject(fs.scaler))

\* C8 (as claimed): a load that follows a successful save of a trained instance
\* returns a trained instance with the same prototypes, markers, dims and scaler
\* parameters.
C8_RoundTrip ==
    [][ret.op = "save" /\ ret.err = "none" /\ ret'.op = "load" =>
          /\ ret'.err = "none"
          /\ fs'.trained
          /\ fs'.weights = fs.weights
          /\ fs'.markers = fs.markers
          /\ fs'.dims = fs.dims
          /\ fs'.scaler = fs.scaler]_vars

\* C19: training is deterministic: from the same instance (same configuration and
\* initial prototypes), the same input data in the same order and the same sample
\* argument, every training run ends with the same prototype grid.
C19_Deterministic ==
    fs.exists =>
        \A data \in TrainInputs, sample \in SampleArgs :
            \A a, b \in TrainResult(fs, data, sample) : a.obj.weights = b.obj.weights

\* C20: len(markers) of an FCSSom is the vector length of its prototype array, and
\* every SOM it produces has one value column per marker.
C20_MarkersMatchDim ==
    /\ (fs.exists => Len(fs.markers) = fs.shape[3])
    /\ (ret.op = "transform" /\ ret.err = "none" =>
          \A k \in 1..Len(ret.som.data) : Len(ret.som.data[k]) = Len(ret.som.markers))

\* C22: the dims an FCSSom reports, exposes in config and persists on save are the
\* dims of the prototype array it holds: rows and cols inferred from the
\* reference grid and dim from the marker list where they were given as -1.
C22_DimsInferred ==
    fs.exists => fs.dims = fs.shape /\ Config(fs).dims = fs.shape

-----------------------------------------------------------------------------
(* Properties of the padding, checked under SpecPad *)

\* out is the grid g padded toroidally by p: (rows + 2p) x (cols + 2p) cells, the
\* cell at (i, j) being the grid's cell at ((i - p) mod rows, (j - p) mod cols)
ToroidallyPadded(g, p, out) ==
    /\ Len(out) = g.rows + 2 * p
    /\ \A i \in 1..Len(out) :
          /\ Len(out[i]) = g.cols + 2 * p
          /\ \A j \in 1..Len(out[i]) :
                out[i][j] = GridArray(g)[((i - 1 - p) % g.rows) + 1][((j - 1 - p) % g.cols) + 1]

\* C9: for a grid of r x c nodes and any pad width, np_array and
\* pad_array both return the toroidally padded grid.
C9_PaddingWraps ==
    padRet.op \in {"np_array", "pad_array"} =>
        padRet.err = "none" /\ ToroidallyPadded(padGrid, padRet.pad, padRet.out)

\* C21: the dims of every SOM are square and their product is the number of
\* prototype vectors in its data; np_array leaves the stored data as it is.
C21_SquareDims ==
    /\ [](padGrid.rows > 0 =>
            LET d == SOMDims(padGrid.som) IN
            d[1] = d[2] /\ d[1] * d[2] = Len(padGrid.som.data))
    /\ [][padRet'.op = "np_array" => padGrid' = padGrid]_vars

-----------------------------------------------------------------------------
(* Properties of SOMDataset, checked under SpecData *)

\* C10: after a stratified split of any dataset, balanced ones
\* included, no case label occurs in both the train and the validate partition.
C10_PartitionsDisjoint ==
    dsRet.op = "split" /\ dsRet.err = "none" =>
        Labels(dsRet.train) \cap Labels(dsRet.validate) = {}

\* |x|
Abs(x) == IF x < 0 THEN 0 - x ELSE x

\* C11: after a stratified split with ratio num/den, for every group g with N_g
\* entries the train partition holds a number of entries of g within one of
\* ratio * N_g, and the validate partition a number within one of (1 - ratio) * N_g.
C11_CountsWithinOne ==
    dsRet.op = "split" /\ dsRet.err = "none" =>
        \A g \in Groups :
            LET num == dsRet.ratio[1]
                den == dsRet.ratio[2]
                N   == GroupLen(dsData, caseGroup, g)
            IN  /\ Abs(den * GroupLen(dsRet.train, caseGroup, g) - num * N) <= den
                /\ Abs(den * GroupLen(dsRet.validate, caseGroup, g) - (den - num) * N) <= den

C11_Witness ==
    /\ dsRet.op = "split" /\ dsRet.err = "none" /\ dsRet.ratio = <<3, 4>>
    /\ GroupLen(dsData, caseGroup, "CLL") = 3
    /\ GroupLen(dsRet.train, caseGroup, "CLL") = 2
    /\ GroupLen(dsRet.validate, caseGroup, "CLL") = 1

\* C12: balance_per_group(targets), and balance(n) as the constant targets, on a
\* dataset with a nonempty group returns normally, and every group that was nonempty
\* then holds exactly targets[g] entries when g is a key and none when it is not,
\* each of them an entry the group held before.
C12_BalanceCounts ==
    [][dsRet'.op \in {"balance", "balance_per_group"} /\ Labels(dsData) # {} =>
          /\ dsRet'.err = "none"
          /\ \A g \in Groups :
                GroupLen(dsData, caseGroup, g) > 0 =>
                   GroupLen(dsData', caseGroup, g) =
                      IF dsRet'.targets[g] = Absent THEN 0 ELSE dsRet'.targets[g]
          /\ \A e \in DOMAIN dsData : dsData'[e] > 0 => dsData[e] > 0]_vars

\* C13: after map_groups(mapping) every entry's group is mapping.get(g0, g0) of the
\* group g0 it had before the call, also when the dataset holds an entry several times.
C13_MappedOnce ==
    [][dsRet'.op = "map_groups" =>
          \A e \in Labels(dsData) : caseGroup'[e] = MapGet(dsRet'.mapping, caseGroup[e])]_vars

\* C14: map_groups, balance and balance_per_group leave the dataset they are called
\* on as it was: the same entries, and the same group on every existing SOMCase.
C14_FunctionalSemantics ==
    [][dsRet'.op \in {"map_groups", "balance", "balance_per_group"} =>
          dsData' = dsData /\ caseGroup' = caseGroup]_vars

\* C28: the train and validate partitions of split(ratio, stratified=True) together
\* hold every entry of the dataset exactly as many times as the dataset does, and
\* the call leaves the dataset's own entries as they were.
C28_SplitConservesEntries ==
    [][dsRet'.op = "split" /\ dsRet'.stratified /\ dsRet'.err = "none" =>
          /\ dsData' = dsData
          /\ caseGroup' = caseGroup
          /\ DOMAIN dsRet'.train = DOMAIN dsData
          /\ DOMAIN dsRet'.validate = DOMAIN dsData
          /\ \A e \in DOMAIN dsData :
                /\ dsRet'.train[e] >= 0
                /\ dsRet'.validate[e] >= 0
                /\ dsRet'.train[e] + dsRet'.validate[e] = dsData[e]]_vars

\* a split of a dataset that holds a case twice has put one of the two entries in
\* train and the other in validate
C28_Witness ==
    /\ dsRet.op = "split" /\ dsRet.stratified /\ dsRet.err = "none"
    /\ \E e \in DOMAIN dsData :
          dsData[e] = 2 /\ dsRet.train[e] = 1 /\ dsRet.validate[e] = 1

\* C29: split(ratio, stratified=False) of a nonempty dataset completes without
\* error and returns train and validate partitions of the entries, train holding
\* round(ratio * N) of the N entries.
C29_UnstratifiedSplit ==
    [][dsRet'.op = "split" /\ ~dsRet'.stratified /\ Labels(dsData) # {} =>
          /\ dsRet'.err = "none"
          /\ \A e \in DOMAIN dsData : dsRet'.train[e] + dsRet'.validate[e] = dsData[e]
          /\ BagTotal(dsRet'.train, DOMAIN dsData) =
                Round(dsRet'.ratio[1] * BagTotal(dsData, DOMAIN dsData), dsRet'.ratio[2])]_vars

-----------------------------------------------------------------------------
(* Properties of transform_generator, checked under SpecGen *)

\* C15: between the consumer's calls the generator has handed over one SOM for
\* every sample it has taken from the source, the k-th SOM being the transform of
\* the k-th sample, and it ends (StopIteration) only when the source is exhausted,
\* with one SOM yielded per element of the source.
C15_OnePerSampleLazy ==
    /\ Len(gen.yielded) = gen.taken
    /\ \A k \in 1..Len(gen.yielded) :
          \E out \in TransformResult(fs, gen.src[k], gen.sample, NoScaler) :
             out.err = "none" /\ out.som = gen.yielded[k]
    /\ (gen.state = "finished" =>
          gen.taken = Len(gen.src) /\ Len(gen.yielded) = Len(gen.src))

\* C16: a MarkerMissingError of one sample reaches the consumer with the missing
\* markers and leaves the FCSSom unchanged, and the consumer's next call on the
\* generator goes on with the sample after the failed one.
C16_SkipAndContinue ==
    [][/\ (gen'.last = "MarkerMissingError" /\ gen' # gen =>
             gen'.missing # <<>> /\ fs' = fs)
       /\ (gen.last = "MarkerMissingError" /\ gen.taken < Len(gen.src) /\ gen' # gen =>
             gen'.taken = gen.taken + 1 /\ gen'.last # "StopIteration")]_vars

-----------------------------------------------------------------------------
(* Properties of SOMCollection, checked under SpecColl *)

\* the tubes that have a grid in the cache
CachedTubes(c) == {t \in DOMAIN c.data : c.data[t] # 0}

\* C17 as stated: a tube's file is read only by an access to that tube (get_tube,
\* load or iteration) and at most once; an access to a cached tube returns the
\* cached object without a read; the cached object of a tube stays the same unless
\* add_som registers a grid for that tube, and that grid is then what is cached.
C17_ReadAtMostOnce ==
    [][\A t \in Tubes :
         /\ reads'[t] <= 1
         /\ (reads'[t] # reads[t] =>
                /\ collRet'.op \in {"get_tube", "load", "next"}
                /\ collRet'.op # "load" => collRet'.tube = t /\ collRet'.read
                /\ coll.data[t] = 0 /\ coll'.data[t] # 0)
         /\ (collRet'.op \in {"get_tube", "next"} /\ collRet'.tube = t /\ coll.data[t] # 0 =>
                /\ collRet'.val = coll.data[t] /\ collRet'.err = "none"
                /\ reads' = reads /\ coll'.data = coll.data)
         /\ (coll.data[t] # 0 /\ coll'.data[t] # coll.data[t] =>
                collRet'.op = "add_som" /\ collRet'.tube = t /\ coll'.data[t] = collRet'.val)
      ]_vars

\* C17, amended: a tube's file is read only by an access to that tube while the
\* tube is not cached, once per access; a read that succeeds caches the grid, a
\* read that fails raises and caches nothing (so that a later access reads again);
\* a cached tube is never read and stays cached; an access to a cached tube
\* returns the cached object; the cached object of a tube changes only when
\* add_som registers a grid for that tube, which is then what is cached.
C17_LazyAndCached ==
    [][\A t \in Tubes :
         /\ (reads'[t] # reads[t] =>
                /\ reads'[t] = reads[t] + 1
                /\ collRet'.op \in {"get_tube", "load", "next"}
                /\ collRet'.op # "load" => collRet'.tube = t /\ collRet'.read
                /\ coll.data[t] = 0
                /\ coll'.data[t] # 0 \/ (collRet'.err = "OSError" /\ t \in coll.unreadable))
         /\ (coll.data[t] # 0 => reads'[t] = reads[t] /\ coll'.data[t] # 0)
         /\ (collRet'.op \in {"get_tube", "next"} /\ collRet'.tube = t /\ coll.data[t] # 0 =>
                /\ collRet'.val = coll.data[t] /\ collRet'.err = "none"
                /\ reads' = reads /\ coll'.data = coll.data)
         /\ (coll.data[t] # 0 /\ coll'.data[t] # coll.data[t] =>
                collRet'.op = "add_som" /\ collRet'.tube = t /\ coll'.data[t] = collRet'.val)
      ]_vars

\* a second get_tube of a tube whose file cannot be read has read the file again and
\* failed again, while another tube is cached after a single read
C17_Witness ==
    /\ collRet.op = "get_tube" /\ collRet.err = "OSError" /\ collRet.read
    /\ reads[collRet.tube] = 2 /\ coll.data[collRet.tube] = 0
    /\ \E t \in Tubes : coll.data[t] # 0 /\ reads[t] = 1

\* C18: get_tube of a tube that is not in the tubes list returns None without
\* raising, reads nothing and leaves the cache and the tubes list as they were;
\* the cached tubes are always among the tubes of the list.
C18_AbsentTubeIsNone ==
    /\ [](CachedTubes(coll) \subseteq {coll.tubes[i] : i \in DOMAIN coll.tubes})
    /\ [][collRet'.op = "get_tube" /\ ~InSeq(coll.tubes, collRet'.tube) =>
            /\ collRet'.val = 0 /\ collRet'.err = "none"
            /\ reads' = reads
            /\ coll'.data = coll.data /\ coll'.tubes = coll.tubes]_vars

C18_Witness ==
    /\ collRet.op = "get_tube" /\ collRet.err = "none" /\ collRet.val = 0
    /\ ~InSeq(coll.tubes, collRet.tube)
    /\ collRet.tube \in coll.tubepaths
    /\ CachedTubes(coll) # {}

-----------------------------------------------------------------------------
(* Properties of add_weight_images, checked under SpecImg *)

\* C23: add_weight_images lets no exception escape; an image that names a marker
\* the grid does not have is not added and is reported with exactly its markers
\* that are not None and not in the marker list; every other image is added.
C23_MissingMarkersRecoverable ==
    call.fn = "add_weight_images" =>
        /\ call.err = "none"
        /\ \A i \in 1..Len(call.dict) :
              LET mis == {m \in SeqRange(call.dict[i]) : m # NoMarker /\ ~InSeq(fs.markers, m)} IN
              IF mis = {}
              THEN InSeq(call.added, i) /\ \A w \in SeqRange(call.warned) : w[1] # i
              ELSE /\ ~InSeq(call.added, i)
                   /\ \E w \in SeqRange(call.warned) : w[1] = i /\ SeqRange(w[2]) = mis

-----------------------------------------------------------------------------
(* Properties of SOMSequence, checked under SpecSeq *)

\* C26: a sequence over N entries has ceil(N / batch_size) batches; the first
\* __getitem__(idx) returns the entries idx*batch_size .. min((idx+1)*batch_size, N)-1
\* in dataset order, and every later __getitem__(idx) returns the memoized result
\* without computing it again.
C26_BatchesPartitionAndMemoize ==
    sseq.exists =>
        LET N == Len(sseq.dataset)
            b == sseq.batch_size
            lo(idx) == idx * b
            hi(idx) == IF (idx + 1) * b < N THEN (idx + 1) * b ELSE N
            want(idx) == [k \in 1..(hi(idx) - lo(idx)) |-> sseq.dataset[lo(idx) + k]]
        IN  /\ SeqLen(sseq) * b >= N
            /\ (SeqLen(sseq) - 1) * b < N \/ N = 0
            /\ sseq.last.op = "getitem" =>
                  /\ sseq.last.err = "none"
                  /\ sseq.last.out = want(sseq.last.idx)
                  /\ sseq.last.idx \in DOMAIN sseq.cache
            /\ \A j \in DOMAIN sseq.cache : sseq.cache[j] = want(j)

-----------------------------------------------------------------------------
(* Properties of deduplicate_cases_by_sureness, checked under SpecDedup *)

\* C27: no two cases of the result share an id; an id that occurs once keeps its
\* case; an id that occurs several times keeps only the case with the strictly
\* highest sureness, and no case at all when the two highest scores are equal.
C27_DedupKeepsStrictlyHighest ==
    call.fn = "deduplicate_cases_by_sureness" =>
        LET cases == call.cases
            out == call.deduplicated
            score(i) == SurenessOf[cases[i].kind]
            same(id) == {i \in 1..Len(cases) : cases[i].id = id}
            kept(id) == {i \in SeqRange(out) : cases[i].id = id}
            best(id) == {i \in same(id) : \A j \in same(id) \ {i} : score(j) < score(i)}
        IN  /\ \A a, b \in 1..Len(out) : a # b => cases[out[a]].id # cases[out[b]].id
            /\ \A id \in 1..MaxIds : kept(id) = best(id)

\* an id carried by two cases, the second of which has the higher sureness and is
\* the one kept, next to an id carried by one case
C27_Witness ==
    /\ call.fn = "deduplicate_cases_by_sureness"
    /\ Len(call.cases) = 3
    /\ call.cases[1].id = call.cases[2].id
    /\ call.cases[3].id # call.cases[1].id
    /\ SurenessOf[call.cases[1].kind] < SurenessOf[call.cases[2].kind]
    /\ call.deduplicated = <<2, 3>>

-----------------------------------------------------------------------------
(* Properties of iteration over a SOMCollection, checked under SpecIter *)

\* C30: each of two loops over the same collection, however they are interleaved,
\* receives the grid of every tube of the tubes list exactly once and in list
\* order: what a loop has received is always a prefix of the list, and the whole
\* list when the loop ends.
C30_InterleavedIteration ==
    loops # NoLoops =>
        \A c \in LoopNames :
            /\ Len(loops[c].got) <= Len(coll.tubes)
            /\ \A k \in 1..Len(loops[c].got) : loops[c].got[k] = coll.tubes[k]
            /\ loops[c].state = "done" => loops[c].got = coll.tubes

-----------------------------------------------------------------------------
(* Properties of GROUP_MAPS, checked under SpecVoc *)

\* C24: for every entry of GROUP_MAPS, remapping GROUPS with the entry's map gives
\* exactly the groups of the entry's vocabulary (and remapping a part of GROUPS gives
\* a part of it), and a second pass of the map changes nothing.
C24_MapsMatchVocabulary ==
    call.fn = "remap" =>
        LET entry == GROUP_MAPS[call.name] IN
        /\ SeqRange(call.groups) \subseteq SeqRange(entry.groups)
        /\ call.source = GROUPS => SeqRange(call.groups) = SeqRange(entry.groups)
        /\ call.passes > 1 => call.groups = call.before

\* the 6class map has been applied twice to the whole of GROUPS
C24_Witness ==
    /\ call.fn = "remap"
    /\ call.name = "6class"
    /\ call.source = GROUPS
    /\ call.passes = 2
    /\ "LM" \in SeqRange(call.groups)

====
